---------------------------- MODULE Spec2Model ----------------------------
(***************************************************************************)
(* Kanji-Etymology-Visualizer: the graph component (KanjiGraphComponent).  *)
(*                                                                         *)
(* The module holds four specifications over one list of variables; each   *)
(* leaves the variables of the others at their initial values.             *)
(*   SpecFlatten  flattenData and the link binding of createGraph          *)
(*   SpecSim      the force simulation's ticks and the drag handlers       *)
(*   SpecView     the zoom behaviour (wheel / pinch / pan)                 *)
(*   SpecExport   createExportCanvas: annotation, bounding box, canvas     *)
(***************************************************************************)
EXTENDS Integers, Sequences, FiniteSets, TLC

VARIABLES
    tree,        \* the KanjiNode handed to createGraph (kanjiData)
    rendered,    \* TRUE once createGraph has run for `tree`
    graph,       \* what flattenData returned: [nodes, links]
    bound,       \* the links as the link force holds them after initialisation
    simulations, \* every simulation createGraph has made, oldest first: [alpha, running]
    alpha,       \* simulation.alpha(), in units of 1/AlphaScale
    alphaTarget, \* simulation.alphaTarget(), in the same units
    running,     \* TRUE while the simulation's timer is running
    x, y,        \* node.x, node.y of every simulated node
    fx, fy,      \* node.fx, node.fy of every simulated node (Unset when null)
    gesture,     \* per pointer: the node its drag gesture holds, or NullRef
    dragStarts,  \* TRUE when a drag-start has happened since the last tick
    grab,        \* per pointer: the offset d3-drag keeps between subject and pointer
    transform,   \* the zoom transform [k, x, y]; k in tenths
    textHidden,  \* TRUE when the zoom handler has set display: none on the texts
    scene,       \* the node data bound to the live g.node-group elements
    measure,     \* what the browser measures for the texts of the export
    exported,    \* TRUE once createExportCanvas has run on `scene`
    out,         \* what createExportCanvas built: blocks, bounding box, canvas
    exports,     \* the invocations of exportAsPng / exportAsPdf, oldest first
    kanjiData,   \* AppComponent.kanjiData: <<>> for null, <<data>> for a tree
    selectedNode, \* AppComponent.selectedNode, likewise
    loading,     \* AppComponent.loading
    error,       \* AppComponent.error: "none" for null
    history,     \* AppComponent.history
    localStorage, \* [history: the item 'kanjiHistory', cache: the items of the service]
    requests     \* the calls of getKanjiEtymology, oldest first: [kanji, state]

flatVars == <<tree, rendered, graph, bound, simulations>>
simVars == <<alpha, alphaTarget, running, x, y, fx, fy, gesture, dragStarts, grab>>

viewVars == <<transform, textHidden>>

exportVars == <<scene, measure, exported, out, exports>>

appVars == <<kanjiData, selectedNode, loading, error, history, localStorage, requests>>

vars == <<flatVars, simVars, viewVars, exportVars, appVars>>

\* the null object reference (references to nodes are positions, from 1)
NullRef == 0

Max(a, b) == IF a >= b THEN a ELSE b
Min(a, b) == IF a <= b THEN a ELSE b

(***************************************************************************)
(* Input trees (KanjiNode).  A node is a record with the fields character, *)
(* id, components and, optionally, isRoot.  id is '' on every node the     *)
(* service produces.                                                       *)
(***************************************************************************)
MaxTreeNodes == 4

Chars == {"a", "b"}

\* character, id and the optional isRoot of one KanjiNode: isRoot is absent,
\* or present with either value
NodeLabels ==
    { [character |-> c, id |-> ""] : c \in Chars }
    \cup { [character |-> "a", id |-> "", isRoot |-> TRUE],
           [character |-> "b", id |-> "", isRoot |-> FALSE] }

KanjiNode(label, comps) ==
    [f \in DOMAIN label \cup {"components"} |->
        IF f = "components" THEN comps ELSE label[f]]

RECURSIVE TreesN(_), ForestsN(_)
\* the trees with exactly n nodes
TreesN(n) ==
    IF n < 1 THEN {}
    ELSE { KanjiNode(l, f) : l \in NodeLabels, f \in ForestsN(n - 1) }
\* the sequences of trees with n nodes in total
ForestsN(n) ==
    IF n = 0 THEN { <<>> }
    ELSE UNION { { <<t>> \o f : t \in TreesN(k), f \in ForestsN(n - k) } : k \in 1..n }

Trees == UNION { TreesN(n) : n \in 1..MaxTreeNodes }

(***************************************************************************)
(* flattenData.  An object reference to a D3KanjiNode is its position in   *)
(* `nodes`: every object is pushed once, when it is created.               *)
(***************************************************************************)
ObjectRef(i) == [kind |-> "object", ref |-> i]
StringKey(s) == [kind |-> "string", str |-> s]

\* { id, isRoot, ...node }: the input's own fields written last
MakeD3NodeSpreadLast(node, isRoot) ==
    [f \in DOMAIN node \cup {"id", "isRoot"} |->
        IF f \in DOMAIN node THEN node[f]
        ELSE IF f = "id" THEN node.character ELSE isRoot]

\* { ...node, id: node.character, isRoot }
MakeD3Node(node, isRoot) ==
    [f \in DOMAIN node \cup {"id", "isRoot"} |->
        IF f = "id" THEN node.character
        ELSE IF f = "isRoot" THEN isRoot
        ELSE node[f]]

\* links.push({ source: parent.id, target: d3Node.id })
MakeLinkById(nodes, parent, ref) ==
    [source |-> StringKey(nodes[parent].id), target |-> StringKey(nodes[ref].id)]

\* { source: parent, target: d3Node }
MakeLink(nodes, parent, ref) ==
    [source |-> ObjectRef(parent), target |-> ObjectRef(ref)]

\* the link pushed whether or not there is a parent
PushLinkAlways(acc, parent, ref) ==
    [acc EXCEPT !.links = Append(@,
        IF parent = NullRef THEN [source |-> ObjectRef(ref), target |-> ObjectRef(ref)]
        ELSE MakeLink(acc.nodes, parent, ref))]

\* if (parent) links.push(...)
PushLink(acc, parent, ref) ==
    IF parent # NullRef
    THEN [acc EXCEPT !.links = Append(@, MakeLink(acc.nodes, parent, ref))]
    ELSE acc

RECURSIVE recurse(_, _, _, _), forEachComponent(_, _, _, _)

\* node.components.forEach(child => recurse(child, d3Node, false))
forEachComponent(acc, comps, i, ref) ==
    IF i > Len(comps) THEN acc
    ELSE forEachComponent(recurse(acc, comps[i], ref, FALSE), comps, i + 1, ref)

\* the children visited before the link to the node is pushed
recurseLinkLast(acc, node, parent, isRoot) ==
    LET ref == Len(acc.nodes) + 1
        a1  == [acc EXCEPT !.nodes = Append(@, MakeD3Node(node, isRoot))]
        a2  == forEachComponent(a1, node.components, 1, ref)
    IN  PushLink(a2, parent, ref)

recurse(acc, node, parent, isRoot) ==
    LET ref == Len(acc.nodes) + 1
        a1  == [acc EXCEPT !.nodes = Append(@, MakeD3Node(node, isRoot))]
        a2  == PushLink(a1, parent, ref)
    IN  forEachComponent(a2, node.components, 1, ref)

flattenData(root) == recurse([nodes |-> <<>>, links |-> <<>>], root, NullRef, TRUE)

(***************************************************************************)
(* d3.forceLink(links).id(d => d.id): on initialisation the force builds   *)
(* nodeById from the nodes in order (a later node with the same id         *)
(* replaces an earlier one) and replaces every link end that is not an     *)
(* object by the node found under that id.                                 *)
(***************************************************************************)
nodeById(nodes, key) ==
    LET hits == { i \in DOMAIN nodes : nodes[i].id = key }
    IN  IF hits = {} THEN NullRef ELSE CHOOSE i \in hits : \A j \in hits : j <= i

linkEnd(nodes, e) ==
    IF e.kind = "object" THEN e.ref ELSE nodeById(nodes, e.str)

forceLinkInitialize(nodes, links) ==
    [i \in DOMAIN links |->
        [source |-> linkEnd(nodes, links[i].source),
         target |-> linkEnd(nodes, links[i].target)]]

FlatStart ==
    /\ tree \in Trees
    /\ rendered = FALSE
    /\ graph = [nodes |-> <<>>, links |-> <<>>]
    /\ bound = <<>>
    /\ simulations = <<>>

\* the graph that is simulated: a root with one component
SampleTree ==
    [character |-> "a", id |-> "",
     components |-> << [character |-> "b", id |-> "", components |-> <<>>] >>]

\* no tree under study: the state of these variables in the other specifications
FlatIdle ==
    /\ tree = SampleTree
    /\ rendered = FALSE
    /\ graph = [nodes |-> <<>>, links |-> <<>>]
    /\ bound = <<>>
    /\ simulations = <<>>

(***************************************************************************)
(* The force simulation and the drag handlers.                             *)
(*                                                                         *)
(* d3.forceSimulation(nodes) starts with alpha 1, alphaTarget 0, alphaMin  *)
(* 0.001, alphaDecay 1 - 0.001^(1/300) (about 0.0228) and a running timer. *)
(* Each timer step runs one tick                                           *)
(*     alpha += (alphaTarget - alpha) * alphaDecay;                        *)
(*     every force adds to the velocities (forceCenter moves x, y);        *)
(*     per node: if (fx == null) x += vx *= velocityDecay;                 *)
(*               else x = fx, vx = 0;          (the same for y and fy)     *)
(* then calls the 'tick' listener and stops the timer if alpha < alphaMin. *)
(*                                                                         *)
(* alpha lives on a grid of AlphaScale steps per unit; a tick moves it     *)
(* towards alphaTarget by the decay share of the distance, at least one    *)
(* grid step.  Coordinates live on a two-point grid.  What the forces       *)
(* do to a free coordinate is left open: any grid value.                   *)
(***************************************************************************)
AlphaScale == 10
MaxTouches == 2

\* null in fx, fy
Unset == -1

\* the coordinate grid: two positions on each axis
Coord == {0, 1}
Touches == 1..MaxTouches

SimNodes == DOMAIN flattenData(SampleTree).nodes

\* d3 defaults: alphaMin = 1 / AlphaMinInverse, alphaDecay = AlphaDecayNum / AlphaDecayDen
AlphaMinInverse == 1000
AlphaDecayNum == 228
AlphaDecayDen == 10000

\* simulation.alphaTarget(0.3): DragTargetTenths tenths
DragTargetTenths == 3

DragAlphaTarget == (DragTargetTenths * AlphaScale) \div 10

BelowAlphaMin(a) == a * AlphaMinInverse < AlphaScale

CeilDiv(a, b) == (a + b - 1) \div b

\* alpha += (alphaTarget - alpha) * alphaDecay
AlphaStep(a, target) ==
    IF a = target THEN a
    ELSE IF a < target
         THEN a + CeilDiv((target - a) * AlphaDecayNum, AlphaDecayDen)
         ELSE a - CeilDiv((a - target) * AlphaDecayNum, AlphaDecayDen)

\* if (node.fx == null) node.x += node.vx *= velocityDecay; else node.x = node.fx
Integrate(pin, moved) == IF pin = Unset THEN moved ELSE pin

\* a timer that is never stopped
StopTimerNever(a) == FALSE

\* step(): if (alpha < alphaMin) stepper.stop()
StopTimer(a) == BelowAlphaMin(a)

ActiveCount == Cardinality({ t \in Touches : gesture[t] # NullRef })

\* no gesture, no offset
NoGrab == <<0, 0>>

SimStart ==
    /\ alpha = AlphaScale
    /\ alphaTarget = 0
    /\ running = TRUE
    /\ x \in [SimNodes -> Coord]
    /\ y \in [SimNodes -> Coord]
    /\ fx = [n \in SimNodes |-> Unset]
    /\ fy = [n \in SimNodes |-> Unset]
    /\ gesture = [t \in Touches |-> NullRef]
    /\ dragStarts = FALSE
    /\ grab = [t \in Touches |-> NoGrab]

\* a simulation that has cooled down, the nodes left anywhere: alpha below
\* alphaMin, the timer stopped
SimSettled ==
    /\ alpha = 0
    /\ alphaTarget = 0
    /\ running = FALSE
    /\ x \in [SimNodes -> Coord]
    /\ y \in [SimNodes -> Coord]
    /\ fx = [n \in SimNodes |-> Unset]
    /\ fy = [n \in SimNodes |-> Unset]
    /\ gesture = [t \in Touches |-> NullRef]
    /\ dragStarts = FALSE
    /\ grab = [t \in Touches |-> NoGrab]

\* no simulation: the state of these variables in the other specifications
SimIdle ==
    /\ alpha = 0
    /\ alphaTarget = 0
    /\ running = FALSE
    /\ x = [n \in SimNodes |-> 0]
    /\ y = [n \in SimNodes |-> 0]
    /\ fx = [n \in SimNodes |-> Unset]
    /\ fy = [n \in SimNodes |-> Unset]
    /\ gesture = [t \in Touches |-> NullRef]
    /\ dragStarts = FALSE
    /\ grab = [t \in Touches |-> NoGrab]

\* one step of the simulation's timer: tick, then stop when alpha < alphaMin
Tick ==
    /\ running
    /\ alpha' = AlphaStep(alpha, alphaTarget)
    /\ \E mx, my \in [SimNodes -> Coord] :
          /\ x' = [n \in SimNodes |-> Integrate(fx[n], mx[n])]
          /\ y' = [n \in SimNodes |-> Integrate(fy[n], my[n])]
    /\ running' = ~StopTimer(alpha')
    /\ dragStarts' = FALSE
    /\ UNCHANGED <<alphaTarget, fx, fy, gesture, grab>>

\* event.subject.x = event.subject.x: the pin field is never written
PinAtStartLost(f, n, v) == f

\* event.subject.fx = event.subject.x (and fy, y)
PinAtStart(f, n, v) == [f EXCEPT ![n] = v]

\* if (!event.active) simulation.alphaTarget(0.3)
StartTarget(active, target) == IF active = 0 THEN DragAlphaTarget ELSE target

\* dragended without simulation.alphaTarget(0)
EndTargetKept(active, target) == target

\* if (!event.active) simulation.alphaTarget(0)
EndTarget(active, target) == IF active = 0 THEN 0 ELSE target

\* dragstarted: event.active is the number of gestures already active
dragstarted(t, n) ==
    /\ gesture[t] = NullRef
    /\ alphaTarget' = StartTarget(ActiveCount, alphaTarget)
    /\ running' = (IF ActiveCount = 0 THEN TRUE ELSE running)
    /\ fx' = PinAtStart(fx, n, x[n])
    /\ fy' = PinAtStart(fy, n, y[n])
    /\ gesture' = [gesture EXCEPT ![t] = n]
    /\ dragStarts' = TRUE
    /\ UNCHANGED <<alpha, x, y>>

\* dragged: event.x, event.y are ex, ey
dragged(t, ex, ey) ==
    /\ gesture[t] # NullRef
    /\ fx' = [fx EXCEPT ![gesture[t]] = ex]
    /\ fy' = [fy EXCEPT ![gesture[t]] = ey]
    /\ UNCHANGED <<alpha, alphaTarget, running, x, y, gesture, dragStarts>>

\* dragended: event.active is the number of gestures still active
dragended(t) ==
    /\ gesture[t] # NullRef
    /\ alphaTarget' = EndTarget(ActiveCount - 1, alphaTarget)
    /\ fx' = [fx EXCEPT ![gesture[t]] = Unset]
    /\ fy' = [fy EXCEPT ![gesture[t]] = Unset]
    /\ gesture' = [gesture EXCEPT ![t] = NullRef]
    /\ UNCHANGED <<alpha, running, x, y, dragStarts>>

\* the drag behaviour with the pointer left out: the events carry any position
DragStart == \E t \in Touches, n \in SimNodes : dragstarted(t, n) /\ UNCHANGED grab
DragMove == \E t \in Touches, ex, ey \in Coord : dragged(t, ex, ey) /\ UNCHANGED grab
DragEnd == \E t \in Touches : dragended(t) /\ UNCHANGED grab

(***************************************************************************)
(* The drag behaviour with the pointer (d3-drag).  On pointer down over a  *)
(* node the behaviour takes the node's datum as the subject and keeps      *)
(*     dx = subject.x - p[0],  dy = subject.y - p[1]                       *)
(* for the gesture; every event of the gesture carries                     *)
(*     event.x = p[0] + dx,  event.y = p[1] + dy                           *)
(* for the pointer position p at that event, in the coordinates of the     *)
(* node's parent group (the layout coordinates).                           *)
(***************************************************************************)
Pointers == Coord \X Coord

\* the pointer grabs at the centre of the node: dx = dy = 0
OffsetNone(n, p) == NoGrab

\* dx = subject.x - p[0], dy = subject.y - p[1]
Offset(n, p) == <<x[n] - p[1], y[n] - p[2]>>

\* event.x = p[0] + dx, event.y = p[1] + dy
eventAt(t, p) == <<p[1] + grab[t][1], p[2] + grab[t][2]>>

\* mousedown / touchstart at p over node n
pointerdown(t, n, p) ==
    /\ dragstarted(t, n)
    /\ grab' = [grab EXCEPT ![t] = Offset(n, p)]

\* mousemove / touchmove to p; the pointer stays where the node stays on the grid
pointermove(t, p) ==
    /\ eventAt(t, p)[1] \in Coord
    /\ eventAt(t, p)[2] \in Coord
    /\ dragged(t, eventAt(t, p)[1], eventAt(t, p)[2])
    /\ UNCHANGED grab

\* mouseup / touchend
pointerup(t) ==
    /\ dragended(t)
    /\ grab' = [grab EXCEPT ![t] = NoGrab]

PointerDown == \E t \in Touches, n \in SimNodes, p \in Pointers : pointerdown(t, n, p)
PointerMove == \E t \in Touches, p \in Pointers : pointermove(t, p)
PointerUp == \E t \in Touches : pointerup(t)

(***************************************************************************)
(* The life of the simulation: the effect on kanjiData.                    *)
(*                                                                         *)
(* The effect calls createGraph(data) when kanjiData holds a tree and      *)
(* clearGraph() when it is null.  this.simulation is the last of           *)
(* `simulations`; the earlier ones are no longer referenced, but the timer *)
(* of a simulation runs until it is stopped or alpha falls below alphaMin. *)
(***************************************************************************)
MaxSimulations == 3

\* d3.forceSimulation(nodes): alpha 1, the timer started
NewSimulation == [alpha |-> AlphaScale, running |-> TRUE]

\* if (this.simulation) this.simulation.stop()
stopSimulation(sims) ==
    IF sims = <<>> THEN sims ELSE [sims EXCEPT ![Len(sims)].running = FALSE]

\* clearGraph(): the children of the svg and the tooltips are removed
clearGraph(sims) == sims

\* createGraph(data): clearGraph, flattenData, the simulation at hand stopped,
\* a new one made, whose link force binds the links
createGraph(data) ==
    /\ rendered' = TRUE
    /\ LET g == flattenData(data)
       IN  /\ graph' = g
           /\ bound' = forceLinkInitialize(g.nodes, g.links)
    /\ simulations' = Append(stopSimulation(clearGraph(simulations)), NewSimulation)

\* the first tree arrives
CreateGraph ==
    /\ ~rendered
    /\ createGraph(tree)
    /\ UNCHANGED tree

\* the trees that follow one another in the view
ShownTrees == { SampleTree, SampleTree.components[1] }

\* kanjiData becomes a tree: the effect calls createGraph
KanjiDataSet(data) ==
    /\ Len(simulations) < MaxSimulations
    /\ tree' = data
    /\ createGraph(data)

\* kanjiData becomes null: the effect calls clearGraph
KanjiDataCleared ==
    /\ rendered
    /\ rendered' = FALSE
    /\ graph' = [nodes |-> <<>>, links |-> <<>>]
    /\ bound' = <<>>
    /\ simulations' = clearGraph(simulations)
    /\ UNCHANGED tree

\* one step of the timer of simulation i, no gesture held
timerStep(i) ==
    /\ simulations[i].running
    /\ LET a == AlphaStep(simulations[i].alpha, 0)
       IN  simulations' = [simulations EXCEPT ![i] = [alpha |-> a, running |-> ~StopTimer(a)]]
    /\ UNCHANGED <<tree, rendered, graph, bound>>

Render == \E data \in ShownTrees : KanjiDataSet(data)
TimerStep == \E i \in DOMAIN simulations : timerStep(i)

(***************************************************************************)
(* The zoom behaviour: d3.zoom().scaleExtent([0.2, 5]).on('zoom', ...).    *)
(*                                                                         *)
(* The scale k is kept in tenths (10 is the identity).  A wheel turn       *)
(* multiplies k by 2^delta, a pinch by the ratio of the finger distances,  *)
(* a double click by 2; each new scale is clamped to the scale extent      *)
(*     k = max(scaleExtent[0], min(scaleExtent[1], k))                     *)
(* and the translation is moved to keep the pointer's point in place.      *)
(* Dragging the background translates and leaves k alone.  After each      *)
(* change the 'zoom' listener runs.                                        *)
(***************************************************************************)
MaxPan == 1

\* .scaleExtent([0.2, 5]), in tenths
ScaleMin == 2
ScaleMax == 50

\* k < 0.7, in tenths
HideTextBelow == 7

Pan == (0 - MaxPan)..MaxPan

\* the factors a wheel turn, a pinch or a double click may apply, as <<num, den>>
ZoomFactors == { <<1, 10>>, <<1, 2>>, <<4, 5>>, <<5, 4>>, <<2, 1>>, <<10, 1>> }

\* d3.zoom() without scaleExtent: [0, Infinity]
scaleExtentDefault == <<0, ScaleMax * ScaleMax>>

scaleExtent == <<ScaleMin, ScaleMax>>

\* Math.max(scaleExtent[0], Math.min(scaleExtent[1], k))
ClampScale(k) == Max(scaleExtent[1], Min(scaleExtent[2], k))

\* the 'zoom' listener: g.attr('transform', ...); texts hidden when k < 0.7
zoomed(t) ==
    /\ transform' = t
    /\ textHidden' = (t.k < HideTextBelow)

ViewStart ==
    /\ transform = [k |-> 10, x |-> 0, y |-> 0]
    /\ textHidden = FALSE

\* wheel, pinch or double click: scale by f about the pointer
ZoomBy(f) ==
    LET k1 == ClampScale((transform.k * f[1]) \div f[2])
    IN  /\ k1 # transform.k
        /\ \E px, py \in Pan : zoomed([k |-> k1, x |-> px, y |-> py])

\* drag on the background
PanBy(dx, dy) ==
    /\ transform.x + dx \in Pan
    /\ transform.y + dy \in Pan
    /\ zoomed([transform EXCEPT !.x = @ + dx, !.y = @ + dy])

Zoom == \E f \in ZoomFactors : ZoomBy(f)
PanMove == \E dx, dy \in Pan : (dx # 0 \/ dy # 0) /\ PanBy(dx, dy)

(***************************************************************************)
(* createExportCanvas.                                                     *)
(*                                                                         *)
(* Lengths are kept in units of 1/SubPx of a layout unit, so that the      *)
(* positions the simulation leaves (floating point) and the measured text  *)
(* extents may be fractional.  A string is kept as its sequence of tokens: *)
(* 0 is a white space character, n > 0 a run of n other characters.        *)
(***************************************************************************)
SubPx == 8
MaxTokens == 5

\* the lengths of the character runs an explanation is built from
WordLens == {14, 15}

WrapWidth == 30
MaxLines == 2
Padding == 60
ScaleFactor == 4
RootRadius == 30
NodeRadius == 25
BlockOffset == 12
HeaderLineHeight == 15
LineHeight == 12

RECURSIVE TokenSeqs(_)
TokenSeqs(n) ==
    IF n = 0 THEN { <<>> }
    ELSE LET shorter == TokenSeqs(n - 1)
         IN  shorter \cup { Append(q, t) : q \in { r \in shorter : Len(r) = n - 1 },
                                            t \in {0} \cup WordLens }

Explanations == TokenSeqs(MaxTokens)

Readings == { <<>>, <<2>> }

\* str.split(/\s+/): the lengths of the pieces between the runs of white space
RECURSIVE splitFrom(_, _, _, _, _)
splitFrom(str, i, done, cur, inSpace) ==
    IF i > Len(str) THEN Append(done, cur)
    ELSE IF str[i] = 0
         THEN IF inSpace THEN splitFrom(str, i + 1, done, cur, TRUE)
              ELSE splitFrom(str, i + 1, Append(done, cur), 0, TRUE)
         ELSE splitFrom(str, i + 1, done, cur + str[i], FALSE)

split(str) == splitFrom(str, 1, <<>>, 0, FALSE)

\* the wrap loop; a line is [words: the positions in `words` of the words it
\* holds, len: its length in characters]
RECURSIVE wrapFrom(_, _, _, _)
wrapFrom(words, i, line, lines) ==
    IF i > Len(words) THEN Append(lines, line)
    ELSE IF line.len + 1 + words[i] > WrapWidth /\ line.len > 0
         THEN wrapFrom(words, i + 1, [words |-> <<i>>, len |-> words[i]],
                       Append(lines, line))
         ELSE wrapFrom(words, i + 1,
                       [words |-> Append(line.words, i),
                        len |-> (IF line.len > 0 THEN line.len + 1 ELSE 0) + words[i]],
                       lines)

wrap(words) == wrapFrom(words, 1, [words |-> <<>>, len |-> 0], <<>>)

\* '...' added to the second line whenever there is one
ellipsisOnAnySecondLine(i, lines) == i = 1 /\ Len(lines) >= 2

\* if (i === 1 && lines.length > 2) textLine += '...'   (i counts from 0)
ellipsis(i, lines) == i = 1 /\ Len(lines) > 2

\* lines.slice(0, 2).forEach(...): the explanation texts appended to the block
explanationTexts(lines, yOffset) ==
    [k \in 1..Min(MaxLines, Len(lines)) |->
        [kind |-> "explanation",
         y |-> yOffset + (k - 1) * LineHeight,
         words |-> lines[k].words,
         len |-> lines[k].len + (IF ellipsis(k - 1, lines) THEN 3 ELSE 0),
         ellipsis |-> ellipsis(k - 1, lines)]]

radius(d) == IF d.isRoot THEN RootRadius ELSE NodeRadius

\* the export-text-block of one node: the gloss, the readings, the explanation
textBlock(d) ==
    LET gloss   == << [kind |-> "gloss", y |-> 0] >>
        reading == IF d.hiraganaReading # <<>>
                   THEN << [kind |-> "reading", y |-> HeaderLineHeight,
                            hasRomaji |-> d.romajiReading # <<>>] >>
                   ELSE <<>>
        yOffset == HeaderLineHeight * (1 + Len(reading))
        lines   == wrap(split(d.explanation))
    IN  [lines |-> lines,
         texts |-> gloss \o reading \o explanationTexts(lines, yOffset)]

\* getBBox of the cloned group: the circles and, where present, the text
\* blocks (centred under the circle; the widest text is 2 * measure.halfWidth
\* wide and the lowest one reaches measure.descent under its baseline)
nodeBox(d, block, m) ==
    LET r  == radius(d) * SubPx
        hw == IF block = <<>> THEN r ELSE Max(r, m.halfWidth)
        lowest == IF block = <<>> THEN 0
                  ELSE (radius(d) + BlockOffset + block[Len(block)].y) * SubPx + m.descent
    IN  [x0 |-> d.x - hw, x1 |-> d.x + hw,
         y0 |-> d.y - r,  y1 |-> Max(d.y + r, d.y + lowest)]

SetMin(S) == CHOOSE a \in S : \A b \in S : a <= b
SetMax(S) == CHOOSE a \in S : \A b \in S : a >= b

getBBox(nodes, blocks, m) ==
    LET boxes == [i \in DOMAIN nodes |-> nodeBox(nodes[i], blocks[i], m)]
        x0 == SetMin({ boxes[i].x0 : i \in DOMAIN nodes })
        x1 == SetMax({ boxes[i].x1 : i \in DOMAIN nodes })
        y0 == SetMin({ boxes[i].y0 : i \in DOMAIN nodes })
        y1 == SetMax({ boxes[i].y1 : i \in DOMAIN nodes })
    IN  [x |-> x0, y |-> y0, width |-> x1 - x0, height |-> y1 - y0]

\* finalSize = maxDim + padding
finalSizeOnePadding(maxDim) == maxDim + Padding * SubPx

\* finalSize = maxDim + padding * 2
finalSize(maxDim) == maxDim + Padding * 2 * SubPx

\* canvas.width = v: the attribute is an unsigned long, the fraction is dropped
canvasDimension(v) == v \div SubPx

\* a group without a transform attribute: scale 1 (in tenths), no translation
Identity == [k |-> 10, x |-> 0, y |-> 0]

\* svgElement.cloneNode(true): the cloned group carries the transform attribute
\* of the live group, and the cloned character labels the inline display style
\* the zoom listener gave them
cloneNode(live) == [transform |-> live.transform, labelHidden |-> live.textHidden]

\* gClone.attr('transform', null)
clearTransform(c) == [c EXCEPT !.transform = Identity]

\* gClone.attr('transform', `translate(${dx}, ${dy})`): the attribute is
\* replaced; the translation is kept doubled
translate(c, twiceDx, twiceDy) ==
    [c EXCEPT !.transform = [k |-> 10, x |-> twiceDx, y |-> twiceDy]]

\* the clone keeps the transform of the live group and the translation is
\* added to it
centredCloneKeepingView(live, twiceDx, twiceDy) ==
    LET c == cloneNode(live)
    IN  [c EXCEPT !.transform = [k |-> c.transform.k,
                                 x |-> c.transform.x + twiceDx,
                                 y |-> c.transform.y + twiceDy]]

\* the clone as it is serialized: cloned, its transform cleared, then centred
centredClone(live, twiceDx, twiceDy) ==
    translate(clearTransform(cloneNode(live)), twiceDx, twiceDy)

\* where the serialized clone puts the centre of each node (doubled); the
\* lines of the links run between these points
placement(c, nodes) ==
    [i \in DOMAIN nodes |->
        << (2 * nodes[i].x * c.transform.k) \div 10 + c.transform.x,
           (2 * nodes[i].y * c.transform.k) \div 10 + c.transform.y >>]

\* createExportCanvas up to the serialization of the clone; live is the
\* transform and the text display of the live group.  getBBox measures in the
\* group's own user space, so the group's transform has no part in it, and a
\* character label lies within its circle, so its display has none either.
\* The translation is kept doubled: dx = -x + padding + (maxDim - width) / 2
createExportCanvas(live, nodes, m) ==
    LET blocks == [i \in DOMAIN nodes |-> textBlock(nodes[i])]
        graphBBox == getBBox(nodes, [i \in DOMAIN nodes |-> blocks[i].texts], m)
        maxDim == Max(graphBBox.width, graphBBox.height)
        size == finalSize(maxDim)
        twiceDx == 2 * ((0 - graphBBox.x) + Padding * SubPx) + (maxDim - graphBBox.width)
        twiceDy == 2 * ((0 - graphBBox.y) + Padding * SubPx) + (maxDim - graphBBox.height)
        c == centredClone(live, twiceDx, twiceDy)
    IN  [blocks |-> blocks,
         graphBBox |-> graphBBox,
         finalSize |-> size,
         canvasWidth |-> canvasDimension(size * ScaleFactor),
         canvasHeight |-> canvasDimension(size * ScaleFactor),
         twiceDx |-> twiceDx,
         twiceDy |-> twiceDy,
         labelHidden |-> c.labelHidden,
         placement |-> placement(c, nodes)]

\* the scenes: a root at the origin and one component, placed on it, beside
\* it or below it at a fractional distance
FarAway == 100 * SubPx + 3

Scenes ==
    { << [isRoot |-> TRUE, x |-> 0, y |-> 0,
          hiraganaReading |-> h, romajiReading |-> r, explanation |-> e],
         [isRoot |-> FALSE, x |-> cx, y |-> cy,
          hiraganaReading |-> <<>>, romajiReading |-> <<>>, explanation |-> <<15>>] >> :
      h \in Readings, r \in Readings, e \in Explanations,
      cx \in {0, FarAway}, cy \in {0, FarAway} }

Measures ==
    { [halfWidth |-> w, descent |-> 3] : w \in { 10 * SubPx, 40 * SubPx + 1 } }

NoExport ==
    [blocks |-> <<>>, graphBBox |-> [x |-> 0, y |-> 0, width |-> 0, height |-> 0],
     finalSize |-> 0, canvasWidth |-> 0, canvasHeight |-> 0,
     twiceDx |-> 0, twiceDy |-> 0,
     labelHidden |-> FALSE, placement |-> <<>>]

ExportStart ==
    /\ scene \in Scenes
    /\ measure \in Measures
    /\ exported = FALSE
    /\ out = NoExport
    /\ exports = <<>>

\* no export under study: the state of these variables in the other specifications
ExportIdle ==
    /\ scene = <<>>
    /\ measure = [halfWidth |-> 0, descent |-> 0]
    /\ exported = FALSE
    /\ out = NoExport
    /\ exports = <<>>

\* createExportCanvas() up to the canvas and the centred clone
CreateExportCanvas ==
    /\ ~exported
    /\ exported' = TRUE
    /\ out' = createExportCanvas([transform |-> transform, textHidden |-> textHidden],
                                  scene, measure)
    /\ UNCHANGED <<scene, measure, exports>>

\* the scenes exported under a moving view and by the export buttons: one
\* explanation, the component on the root, beside it or below it
ViewScenes ==
    { s \in Scenes : s[1].explanation = <<15>>
                      /\ s[1].hiraganaReading = <<2>> /\ s[1].romajiReading = <<2>> }

ExportViewStart ==
    /\ scene \in ViewScenes
    /\ measure \in Measures
    /\ exported = FALSE
    /\ out = NoExport
    /\ exports = <<>>

(***************************************************************************)
(* exportAsPng and exportAsPdf.                                            *)
(*                                                                         *)
(* Each invocation runs createExportCanvas up to img.src = url and then    *)
(* waits for the image: img.onload resolves the promise and the download   *)
(* follows, img.onerror rejects it.  A promise rejected before the wait    *)
(* (no group in the clone, no 2d context) is handled in the same turn.     *)
(* Every rejection ends in the catch block of the invocation.              *)
(***************************************************************************)
MaxExports == 3

\* an invocation at `await this.createExportCanvas()`
Suspended(kind, canvas) ==
    [kind |-> kind, stage |-> "decoding", error |-> "none", canvasWidth |-> canvas.canvasWidth,
     downloaded |-> FALSE, logged |-> FALSE, rethrown |-> FALSE]

\* catch (error) { console.error(...) }: the promise of exportAs... resolves
catch(e, failure) ==
    [e EXCEPT !.stage = "settled", !.error = failure, !.logged = TRUE]

\* a.click() / pdf.save(...)
download(e) == [e EXCEPT !.stage = "settled", !.downloaded = TRUE]

\* the clone has a group when a graph is rendered
groupFound == scene # <<>>

\* exportAsPng / exportAsPdf up to the first await; ctx: getContext('2d') gave one
invoke(kind, ctx) ==
    IF ~groupFound
    THEN catch(Suspended(kind, NoExport), "group")
    ELSE LET canvas == createExportCanvas([transform |-> transform, textHidden |-> textHidden],
                                          scene, measure)
         IN  IF ~ctx THEN catch(Suspended(kind, canvas), "context")
             ELSE Suspended(kind, canvas)

exportAs(kind) ==
    /\ Len(exports) < MaxExports
    /\ \E ctx \in BOOLEAN : exports' = Append(exports, invoke(kind, ctx))
    /\ UNCHANGED <<scene, measure, exported, out>>

exportAsPng == exportAs("png")
exportAsPdf == exportAs("pdf")

\* img.onload of invocation i, then the rest of exportAs...
onload(i) ==
    /\ exports[i].stage = "decoding"
    /\ exports' = [exports EXCEPT ![i] = download(@)]
    /\ UNCHANGED <<scene, measure, exported, out>>

\* img.onerror of invocation i, then the catch block
onerror(i) ==
    /\ exports[i].stage = "decoding"
    /\ exports' = [exports EXCEPT ![i] = catch(@, "decode")]
    /\ UNCHANGED <<scene, measure, exported, out>>

ImageLoaded == \E i \in DOMAIN exports : onload(i)
ImageFailed == \E i \in DOMAIN exports : onerror(i)

\* the export buttons over a rendered graph or over a cleared view
ExportFlowStart ==
    /\ scene \in ViewScenes \cup { <<>> }
    /\ measure \in Measures
    /\ exported = FALSE
    /\ out = NoExport
    /\ exports = <<>>

(***************************************************************************)
(* AppComponent: startVisualization, the history, and the cache of the     *)
(* service.                                                                *)
(*                                                                         *)
(* A kanji is a positive number, any other input is 0.  An item of         *)
(* localStorage, like a nullable signal, is <<>> when absent (null) and    *)
(* <<v>> when it holds v.  The data the API returns for a request is       *)
(* [character, response, id]: the kanji, the number of the request that    *)
(* fetched it, and the id, which the response does not define and the      *)
(* service sets to ''.  A request answered from the cache completes in the *)
(* turn that made it (its continuation is a microtask); a request sent to  *)
(* the API stays pending until its response or its failure arrives.        *)
(*                                                                         *)
(* An item of the cache is a text [kind, value]: "object" is the JSON of   *)
(* the node in value, "null" the JSON of a falsy value, "garbage" a text   *)
(* that is not JSON, and "empty" the empty string.                         *)
(***************************************************************************)
MAX_HISTORY_SIZE == 15
MaxRequests == 3

\* the kanji asked for: the last and the first entry of a full stored
\* history and one that is not in it
Kanji == { 1, MAX_HISTORY_SIZE, MAX_HISTORY_SIZE + 1 }

Inputs == Kanji \cup {0}

\* value.length === 1 && /[\u4e00-\u9faf]/.test(value)
isValidKanjiValue(value) == value # 0

\* <<n, ..., 1>>
Countdown(n) == [i \in 1..n |-> n + 1 - i]

\* what an earlier session may have left under 'kanjiHistory'
StoredHistories == { Countdown(n) : n \in { MAX_HISTORY_SIZE - 1, MAX_HISTORY_SIZE } }

\* currentHistory.filter(item => item !== kanji)
filter(h, kanji) == SelectSeq(h, LAMBDA item : item # kanji)

\* .slice(0, n)
slice(h, n) == SubSeq(h, 1, Min(n, Len(h)))

\* [kanji, ...filteredHistory] without the filter
newHistoryUnfiltered(h, kanji) == slice(<<kanji>> \o h, MAX_HISTORY_SIZE)

\* [kanji, ...filteredHistory].slice(0, this.MAX_HISTORY_SIZE)
newHistory(h, kanji) == slice(<<kanji>> \o filter(h, kanji), MAX_HISTORY_SIZE)

\* updateHistory(kanji): the signal and the item 'kanjiHistory'
updateHistory(kanji, store) ==
    /\ history' = newHistory(history, kanji)
    /\ localStorage' = [store EXCEPT !.history = << newHistory(history, kanji) >>]

\* loadHistory(): JSON.parse of the item, if there is one
loadHistory(store) == IF store.history = <<>> THEN <<>> ELSE store.history[1]

\* the value field of a text that holds no node
NoNode == [character |-> 0, response |-> 0, id |-> "undefined"]

\* response.text parsed: the node the API returns to request i for kanji
parsedData(kanji, i) == [character |-> kanji, response |-> i, id |-> "undefined"]

\* recursivelyProcessComponents(node): id: ''
recursivelyProcessComponents(node) == [node EXCEPT !.id = ""]

\* JSON.stringify(data)
stringify(data) == [kind |-> "object", value |-> data]

\* JSON.parse(item) returns, it does not throw
parses(item) == item.kind \in { "object", "null" }

\* JSON.parse(item) where it returns: the node, or <<>> for a falsy value
parse(item) == IF item.kind = "object" THEN << item.value >> ELSE <<>>

\* what an earlier session, or another writer of the storage, may have left
\* under the cache key of kanji
StoredItems(kanji) ==
    { stringify(recursivelyProcessComponents(parsedData(kanji, 0))),
      [kind |-> "null", value |-> NoNode],
      [kind |-> "garbage", value |-> NoNode],
      [kind |-> "empty", value |-> NoNode] }

\* !item: there is no item under the key, or it is the empty string
missing(store, kanji) ==
    \/ store.cache[kanji] = <<>>
    \/ store.cache[kanji][1].kind = "empty"

\* getFromCache(kanji): the value returned, <<>> for null or a falsy value
getFromCache(store, kanji) ==
    IF missing(store, kanji) THEN <<>>
    ELSE IF parses(store.cache[kanji][1]) THEN parse(store.cache[kanji][1])
    ELSE <<>>

\* the catch of getFromCache without its removeItem
keepUnparseable(store, kanji) == store

\* getFromCache(kanji): the storage it leaves, localStorage.removeItem(key)
\* in the catch of JSON.parse
removeUnparseable(store, kanji) ==
    IF ~missing(store, kanji) /\ ~parses(store.cache[kanji][1])
    THEN [store EXCEPT !.cache[kanji] = <<>>]
    ELSE store

\* saveToCache(kanji, data): setItem stores the text, or throws (the quota
\* is exceeded) and the catch logs it
saveToCache(store, kanji, data, accepted) ==
    IF accepted THEN [store EXCEPT !.cache[kanji] = << stringify(data) >>]
    ELSE store

\* the try block after the await: the data is shown and the history updated
succeeded(kanji, data, store) ==
    /\ kanjiData' = <<data>>
    /\ selectedNode' = <<data>>
    /\ updateHistory(kanji, store)
    /\ loading' = FALSE

AppStart ==
    /\ kanjiData = <<>>
    /\ selectedNode = <<>>
    /\ loading = FALSE
    /\ error = "none"
    /\ localStorage \in [history : { <<>> } \cup { <<h>> : h \in StoredHistories },
                         cache : { [k \in Kanji |-> <<>>] }]
    /\ history = loadHistory(localStorage)
    /\ requests = <<>>

\* the application starting with no history and, under the cache key of
\* the first kanji, nothing or an item left there earlier
CacheStart ==
    /\ kanjiData = <<>>
    /\ selectedNode = <<>>
    /\ loading = FALSE
    /\ error = "none"
    /\ history = <<>>
    /\ localStorage \in
          [history : { <<>> },
           cache : { [k \in Kanji |-> IF k = 1 THEN item ELSE <<>>] :
                       item \in { <<>> } \cup { <<t>> : t \in StoredItems(1) } }]
    /\ requests = <<>>

\* no application under study: the state of these variables in the other
\* specifications
AppIdle ==
    /\ kanjiData = <<>>
    /\ selectedNode = <<>>
    /\ loading = FALSE
    /\ error = "none"
    /\ history = <<>>
    /\ localStorage = [history |-> <<>>, cache |-> [k \in Kanji |-> <<>>]]
    /\ requests = <<>>

\* startVisualization(kanji) up to the first turn's end
startVisualization(kanji) ==
    IF ~isValidKanjiValue(kanji)
    THEN /\ error' = "invalid"
         /\ UNCHANGED <<kanjiData, selectedNode, loading, history, localStorage, requests>>
    ELSE /\ Len(requests) < MaxRequests
         /\ error' = "none"
         /\ IF getFromCache(localStorage, kanji) # <<>>
            THEN /\ succeeded(kanji, getFromCache(localStorage, kanji)[1],
                              removeUnparseable(localStorage, kanji))
                 /\ requests' = Append(requests,
                        [kanji |-> kanji, state |-> "cached",
                         data |-> getFromCache(localStorage, kanji)])
            ELSE /\ loading' = TRUE
                 /\ kanjiData' = <<>>
                 /\ selectedNode' = <<>>
                 /\ requests' = Append(requests,
                        [kanji |-> kanji, state |-> "pending", data |-> <<>>])
                 /\ localStorage' = removeUnparseable(localStorage, kanji)
                 /\ UNCHANGED history

\* the API answers request i: the data is processed, cached when the
\* storage accepts it, and returned
responded(i, accepted) ==
    /\ requests[i].state = "pending"
    /\ LET kanji == requests[i].kanji
           data  == recursivelyProcessComponents(parsedData(kanji, i))
       IN  /\ succeeded(kanji, data, saveToCache(localStorage, kanji, data, accepted))
           /\ requests' = [requests EXCEPT ![i].state = "fetched", ![i].data = << data >>]
    /\ UNCHANGED error

\* the API call or the parse of request i fails: catch and finally
failed(i) ==
    /\ requests[i].state = "pending"
    /\ error' = "failed"
    /\ kanjiData' = <<>>
    /\ loading' = FALSE
    /\ requests' = [requests EXCEPT ![i].state = "failed"]
    /\ UNCHANGED <<selectedNode, history, localStorage>>

clearHistory ==
    /\ history' = <<>>
    /\ localStorage' = [localStorage EXCEPT !.history = <<>>]
    /\ UNCHANGED <<kanjiData, selectedNode, loading, error, requests>>

StartVisualization == \E kanji \in Inputs : startVisualization(kanji)
Responded == \E i \in DOMAIN requests : responded(i, TRUE)
RespondedUnsaved == \E i \in DOMAIN requests : responded(i, FALSE)
Failed == \E i \in DOMAIN requests : failed(i)

(***************************************************************************)
(* The specifications.                                                     *)
(***************************************************************************)
FlatInit == FlatStart /\ SimIdle /\ ViewStart /\ ExportIdle /\ AppIdle

FlatNext == CreateGraph /\ UNCHANGED <<simVars, viewVars, exportVars, appVars>>

SpecFlatten == FlatInit /\ [][FlatNext]_vars

LifeInit == FlatIdle /\ SimIdle /\ ViewStart /\ ExportIdle /\ AppIdle

LifeNext ==
    \/ Render /\ UNCHANGED <<simVars, viewVars, exportVars, appVars>>
    \/ KanjiDataCleared /\ UNCHANGED <<simVars, viewVars, exportVars, appVars>>
    \/ TimerStep /\ UNCHANGED <<simVars, viewVars, exportVars, appVars>>

SpecLife == LifeInit /\ [][LifeNext]_vars

SimInit == SimStart /\ FlatIdle /\ ViewStart /\ ExportIdle /\ AppIdle

SimNext ==
    \/ Tick /\ UNCHANGED <<flatVars, viewVars, exportVars, appVars>>
    \/ DragStart /\ UNCHANGED <<flatVars, viewVars, exportVars, appVars>>
    \/ DragMove /\ UNCHANGED <<flatVars, viewVars, exportVars, appVars>>
    \/ DragEnd /\ UNCHANGED <<flatVars, viewVars, exportVars, appVars>>

SpecSim == SimInit /\ [][SimNext]_vars

\* the timer of a running simulation keeps firing: every frame brings a tick
SimTick == Tick /\ UNCHANGED <<flatVars, viewVars, exportVars, appVars>>

SpecSimFair == SimInit /\ [][SimNext]_vars /\ WF_vars(SimTick)

\* the drag gestures on a simulation that has cooled down, up to the next tick
DragInit == SimSettled /\ FlatIdle /\ ViewStart /\ ExportIdle /\ AppIdle

DragNext ==
    \/ PointerDown /\ UNCHANGED <<flatVars, viewVars, exportVars, appVars>>
    \/ PointerMove /\ UNCHANGED <<flatVars, viewVars, exportVars, appVars>>
    \/ PointerUp /\ UNCHANGED <<flatVars, viewVars, exportVars, appVars>>

SpecDrag == DragInit /\ [][DragNext]_vars

ViewInit == ViewStart /\ FlatIdle /\ SimIdle /\ ExportIdle /\ AppIdle

ViewNext ==
    \/ Zoom /\ UNCHANGED <<flatVars, simVars, exportVars, appVars>>
    \/ PanMove /\ UNCHANGED <<flatVars, simVars, exportVars, appVars>>

SpecView == ViewInit /\ [][ViewNext]_vars

ExportInit == ExportStart /\ FlatIdle /\ SimIdle /\ ViewStart /\ AppIdle

ExportNext == CreateExportCanvas /\ UNCHANGED <<flatVars, simVars, viewVars, appVars>>

SpecExport == ExportInit /\ [][ExportNext]_vars

ExportViewInit == ExportViewStart /\ FlatIdle /\ SimIdle /\ ViewStart /\ AppIdle

ExportViewNext ==
    \/ Zoom /\ UNCHANGED <<flatVars, simVars, exportVars, appVars>>
    \/ PanMove /\ UNCHANGED <<flatVars, simVars, exportVars, appVars>>
    \/ CreateExportCanvas /\ UNCHANGED <<flatVars, simVars, viewVars, appVars>>

SpecExportView == ExportViewInit /\ [][ExportViewNext]_vars

ExportFlowInit == ExportFlowStart /\ FlatIdle /\ SimIdle /\ ViewStart /\ AppIdle

ExportFlowNext ==
    \/ exportAsPng /\ UNCHANGED <<flatVars, simVars, viewVars, appVars>>
    \/ exportAsPdf /\ UNCHANGED <<flatVars, simVars, viewVars, appVars>>
    \/ ImageLoaded /\ UNCHANGED <<flatVars, simVars, viewVars, appVars>>
    \/ ImageFailed /\ UNCHANGED <<flatVars, simVars, viewVars, appVars>>

SpecExportFlow == ExportFlowInit /\ [][ExportFlowNext]_vars

AppInit == AppStart /\ FlatIdle /\ SimIdle /\ ViewStart /\ ExportIdle

AppNext ==
    \/ StartVisualization /\ UNCHANGED <<flatVars, simVars, viewVars, exportVars>>
    \/ Responded /\ UNCHANGED <<flatVars, simVars, viewVars, exportVars>>
    \/ Failed /\ UNCHANGED <<flatVars, simVars, viewVars, exportVars>>
    \/ clearHistory /\ UNCHANGED <<flatVars, simVars, viewVars, exportVars>>

SpecApp == AppInit /\ [][AppNext]_vars

CacheInit == CacheStart /\ FlatIdle /\ SimIdle /\ ViewStart /\ ExportIdle

CacheNext ==
    \/ StartVisualization /\ UNCHANGED <<flatVars, simVars, viewVars, exportVars>>
    \/ Responded /\ UNCHANGED <<flatVars, simVars, viewVars, exportVars>>
    \/ RespondedUnsaved /\ UNCHANGED <<flatVars, simVars, viewVars, exportVars>>
    \/ Failed /\ UNCHANGED <<flatVars, simVars, viewVars, exportVars>>

SpecCache == CacheInit /\ [][CacheNext]_vars

(***************************************************************************)
(* The occurrences of a tree, stated without the traversal: an occurrence  *)
(* is a path of child positions from the root; pre-order is the            *)
(* lexicographic order of the paths, a prefix first.                       *)
(***************************************************************************)
RECURSIVE Occurrences(_)
Occurrences(node) ==
    { <<>> } \cup
    UNION { { <<i>> \o p : p \in Occurrences(node.components[i]) } :
            i \in DOMAIN node.components }

RECURSIVE NodeAt(_, _)
NodeAt(node, path) ==
    IF path = <<>> THEN node ELSE NodeAt(node.components[Head(path)], Tail(path))

IsPrefix(p, q) == Len(p) <= Len(q) /\ SubSeq(q, 1, Len(p)) = p

PathBefore(p, q) ==
    \/ p # q /\ IsPrefix(p, q)
    \/ \E k \in 1..Min(Len(p), Len(q)) :
           /\ SubSeq(p, 1, k - 1) = SubSeq(q, 1, k - 1)
           /\ p[k] < q[k]

\* the pre-order position of occurrence p of tree t
Rank(t, p) == 1 + Cardinality({ q \in Occurrences(t) : PathBefore(q, p) })

PathOfRank(t, k) == CHOOSE p \in Occurrences(t) : Rank(t, p) = k

Front(p) == SubSeq(p, 1, Len(p) - 1)

\* the pre-order position of the parent of the occurrence at position k > 1
ParentRank(t, k) == Rank(t, Front(PathOfRank(t, k)))

N == Cardinality(Occurrences(tree))

LinksInto(links, i) == { k \in DOMAIN links : links[k].target = ObjectRef(i) }

RECURSIVE ReachesRoot(_, _, _)
ReachesRoot(links, i, fuel) ==
    \/ i = 1
    \/ /\ fuel > 0
       /\ \E k \in DOMAIN links :
            /\ links[k].target = ObjectRef(i)
            /\ links[k].source.kind = "object"
            /\ ReachesRoot(links, links[k].source.ref, fuel - 1)

\* C1: flattenData returns one node per occurrence of the tree and one link
\* fewer, and the links form a tree over the nodes: every node but the first
\* is the target of exactly one link, the first of none, and every node is
\* joined to the first through the links.
C1_NodeAndLinkCount ==
    rendered =>
        /\ Len(graph.nodes) = N
        /\ Len(graph.links) = N - 1
        /\ LinksInto(graph.links, 1) = {}
        /\ \A i \in 2..Len(graph.nodes) : Cardinality(LinksInto(graph.links, i)) = 1
        /\ \A i \in DOMAIN graph.nodes : ReachesRoot(graph.links, i, Len(graph.nodes))

C1_Witness ==
    /\ rendered
    /\ Len(graph.nodes) >= 3
    /\ \E k \in DOMAIN graph.links : graph.links[k].source # ObjectRef(1)
    /\ \E k \in DOMAIN graph.links : k > 1 /\ graph.links[k].source = ObjectRef(1)

\* C2: the first node returned has isRoot = TRUE and every other node has
\* isRoot = FALSE, whatever isRoot fields the input tree carries.
C2_OnlyFirstIsRoot ==
    rendered =>
        \A i \in DOMAIN graph.nodes : graph.nodes[i].isRoot = (i = 1)

C2_Witness ==
    /\ rendered
    /\ "isRoot" \in DOMAIN tree /\ tree.isRoot = FALSE
    /\ \E p \in Occurrences(tree) :
          /\ p # <<>>
          /\ "isRoot" \in DOMAIN NodeAt(tree, p)
          /\ NodeAt(tree, p).isRoot = TRUE

\* C3: the nodes are in pre-order (the node at position k is the k-th
\* occurrence of the tree, parents first and children left to right), and the
\* i-th link targets the (i+1)-th node and starts at an earlier node.
C3_PreOrder ==
    rendered =>
        /\ \A p \in Occurrences(tree) :
              LET k == Rank(tree, p)
              IN  /\ k \in DOMAIN graph.nodes
                  /\ graph.nodes[k].character = NodeAt(tree, p).character
                  /\ graph.nodes[k].components = NodeAt(tree, p).components
        /\ \A i \in DOMAIN graph.links :
              /\ graph.links[i].target = ObjectRef(i + 1)
              /\ graph.links[i].source.kind = "object"
              /\ graph.links[i].source.ref \in 1..i

C3_Witness ==
    /\ rendered
    /\ Len(tree.components) = 2
    /\ Len(tree.components[1].components) = 1
    /\ graph.links[3].source = ObjectRef(1)

SameCharacter(i, j) ==
    /\ i # j
    /\ graph.nodes[i].character = graph.nodes[j].character

\* C4: when one character occurs at two positions of the tree, the bound graph
\* holds a node for each and every bound link that ends at one of the two
\* starts at that occurrence's own parent: exactly one link ends at each
\* occurrence other than the root.
C4_RepeatedCharacterOwnParent ==
    rendered =>
        \A i, j \in DOMAIN graph.nodes :
            SameCharacter(i, j) =>
                /\ i > 1 =>
                      /\ \E k \in DOMAIN bound : bound[k].target = i
                      /\ \A k \in DOMAIN bound :
                            bound[k].target = i => bound[k].source = ParentRank(tree, i)
                /\ i = 1 => \A k \in DOMAIN bound : bound[k].target # i
                /\ Cardinality({ k \in DOMAIN bound : bound[k].target = i })
                       = (IF i = 1 THEN 0 ELSE 1)

C4_Witness ==
    /\ rendered
    /\ \E i, j \in DOMAIN graph.nodes :
          /\ SameCharacter(i, j)
          /\ i > 1 /\ j > 1
          /\ ParentRank(tree, i) # ParentRank(tree, j)
          /\ \E k \in DOMAIN bound : bound[k].target = i /\ bound[k].source = ParentRank(tree, i)
          /\ \E k \in DOMAIN bound : bound[k].target = j /\ bound[k].source = ParentRank(tree, j)

\* C5: the ids of the nodes of a flattened graph are pairwise distinct, also
\* when a character is repeated in the tree.
C5_IdsPairwiseDistinct ==
    rendered =>
        \A i, j \in DOMAIN graph.nodes :
            i # j => graph.nodes[i].id # graph.nodes[j].id

Pinned(n) == fx[n] # Unset \/ fy[n] # Unset

\* C6: drag-start and drag-move pin the dragged node on both axes, and after
\* every tick each pinned node is at its pin: x = fx and y = fy, whatever the
\* forces did.
C6_PinnedNodeAtPin ==
    [][ /\ Tick => \A n \in SimNodes :
                      Pinned(n) => x'[n] = fx'[n] /\ y'[n] = fy'[n]
        /\ \A t \in Touches, n \in SimNodes :
              dragstarted(t, n) => fx'[n] # Unset /\ fy'[n] # Unset
        /\ \A t \in Touches, ex, ey \in Coord :
              dragged(t, ex, ey) => fx'[gesture[t]] = ex /\ fy'[gesture[t]] = ey
      ]_vars

\* a tick has run since the drag began, the node sits at its pin and the other
\* node, unpinned, is elsewhere
C6_Witness ==
    \E n, m \in SimNodes, t \in Touches :
        /\ gesture[t] = n
        /\ ~dragStarts
        /\ fx[n] # Unset /\ fy[n] # Unset
        /\ x[n] = fx[n] /\ y[n] = fy[n]
        /\ ~Pinned(m)
        /\ x[m] # x[n]
        /\ alpha = DragAlphaTarget

\* C7 as stated: a tick with no drag-start since the tick before it never
\* raises alpha, and with alpha below the stop threshold no tick happens unless
\* a drag-start came first.
C7_AlphaNeverRisesWithoutDragStart ==
    [][ /\ (Tick /\ ~dragStarts) => alpha' <= alpha
        /\ (Tick /\ BelowAlphaMin(alpha)) => dragStarts
      ]_vars

\* C7 amended: a tick taken while no drag gesture is active never raises
\* alpha, and with alpha below the stop threshold no tick happens unless a
\* drag-start came first.
C7_AlphaDecaysWhileNoDrag ==
    [][ /\ (Tick /\ ActiveCount = 0) => alpha' <= alpha
        /\ (Tick /\ BelowAlphaMin(alpha)) => dragStarts
      ]_vars

\* settled (alpha below the threshold, timer stopped) after a drag has ended
C7_Witness ==
    /\ BelowAlphaMin(alpha)
    /\ ~running
    /\ ActiveCount = 0
    /\ alphaTarget = 0
    /\ dragStarts = FALSE

\* C8: after any sequence of zooms and pans the scale is within [0.2, 5].
C8_ScaleWithinExtent ==
    ScaleMin <= transform.k /\ transform.k <= ScaleMax

\* the scale sits at the lower end of the extent, the view panned
C8_Witness ==
    /\ transform.k = ScaleMin
    /\ transform.x # 0
    /\ textHidden

\* the bounding box of the annotated scene before it is centred, and the
\* larger of its two sides
AnnotatedBBox ==
    getBBox(scene, [i \in DOMAIN scene |-> out.blocks[i].texts], measure)

AnnotatedMaxDim == Max(AnnotatedBBox.width, AnnotatedBBox.height)

\* C9 as stated: the canvas is square and its side equals
\* (max(boxWidth, boxHeight) + 120) * 4 for the bounding box of the annotated
\* scene.
C9_CanvasSideExact ==
    exported =>
        /\ out.canvasWidth = out.canvasHeight
        /\ out.canvasWidth * SubPx = (AnnotatedMaxDim + 120 * SubPx) * 4

\* C9 amended: the canvas is square and its side is the integer part of
\* (max(boxWidth, boxHeight) + 120) * 4 for the bounding box of the annotated
\* scene.
C9_CanvasSideFloor ==
    exported =>
        /\ out.canvasWidth = out.canvasHeight
        /\ out.canvasWidth * SubPx <= (AnnotatedMaxDim + 120 * SubPx) * 4
        /\ (AnnotatedMaxDim + 120 * SubPx) * 4 < (out.canvasWidth + 1) * SubPx

\* an export whose side has a fraction to drop, the text block of the root
\* reaching below and beside its circle
C9_Witness ==
    /\ exported
    /\ ((AnnotatedMaxDim + 120 * SubPx) * 4) % SubPx # 0
    /\ AnnotatedBBox.height > (RootRadius * 2) * SubPx
    /\ AnnotatedBBox.width > AnnotatedBBox.height
    /\ measure.halfWidth > RootRadius * SubPx

ExplanationTexts(block) ==
    { k \in DOMAIN block.texts : block.texts[k].kind = "explanation" }

\* the words of the wrapped lines numbered ks
WordsOf(block, ks) ==
    UNION { { block.lines[k].words[j] : j \in DOMAIN block.lines[k].words } : k \in ks }

RenderedWords(block) ==
    UNION { { block.texts[k].words[j] : j \in DOMAIN block.texts[k].words } :
            k \in ExplanationTexts(block) }

\* C10: when the wrap of a node's explanation yields more than 2 lines, the
\* block holds exactly 2 explanation lines, they are the first two wrapped
\* lines, the second ends with '...' (the first does not), and no word of a
\* later wrapped line is in them; when the wrap yields at most 2 lines, every
\* wrapped line is rendered and none carries '...'.
C10_TruncatedToTwoLines ==
    exported =>
        \A i \in DOMAIN out.blocks :
            LET block == out.blocks[i]
                ks    == ExplanationTexts(block)
                first == SetMin(ks)
            IN  /\ ks # {}
                /\ IF Len(block.lines) > MaxLines
                   THEN /\ Cardinality(ks) = 2
                        /\ ks = {first, first + 1}
                        /\ block.texts[first].words = block.lines[1].words
                        /\ block.texts[first + 1].words = block.lines[2].words
                        /\ ~block.texts[first].ellipsis
                        /\ block.texts[first].len = block.lines[1].len
                        /\ block.texts[first + 1].ellipsis
                        /\ block.texts[first + 1].len = block.lines[2].len + 3
                        /\ RenderedWords(block)
                             \cap WordsOf(block, 3..Len(block.lines)) = {}
                   ELSE /\ Cardinality(ks) = Len(block.lines)
                        /\ \A k \in ks :
                              /\ ~block.texts[k].ellipsis
                              /\ block.texts[k].words = block.lines[k - first + 1].words
                              /\ block.texts[k].len = block.lines[k - first + 1].len

\* an explanation wrapped into three lines, the third holding a word
C10_Witness ==
    /\ exported
    /\ Len(out.blocks[1].lines) = 3
    /\ split(scene[1].explanation)[out.blocks[1].lines[3].words[1]] > 0
    /\ \E k \in DOMAIN out.blocks[1].texts :
          out.blocks[1].texts[k].kind = "explanation" /\ out.blocks[1].texts[k].ellipsis

ReadingTexts(block) ==
    { k \in DOMAIN block.texts : block.texts[k].kind = "reading" }

\* C11: the block of a node holds the phonetic line only if both of its
\* readings are non-empty; when either is empty the line is left out and the
\* first explanation line sits directly under the gloss.
C11_ReadingLineOnlyIfBothReadings ==
    exported =>
        \A i \in DOMAIN out.blocks :
            LET block == out.blocks[i]
                both  == scene[i].hiraganaReading # <<>> /\ scene[i].romajiReading # <<>>
            IN  /\ ReadingTexts(block) # {} => both
                /\ ~both =>
                      /\ ReadingTexts(block) = {}
                      /\ block.texts[SetMin(ExplanationTexts(block))].y = HeaderLineHeight

\* C12: at most one export is waiting for its image at any time: an export
\* invoked while another one waits does not start.
C12_AtMostOneExportInFlight ==
    Cardinality({ i \in DOMAIN exports : exports[i].stage = "decoding" }) <= 1

\* C13: the canvas size and the place of every node (and so of every link) in
\* an export are those of the export taken under the untouched view, whatever
\* zooms and pans the live view had gone through: any two exports of the same
\* nodes at the same positions agree in them.
C13_ExportIndependentOfView ==
    exported =>
        LET other == createExportCanvas([transform |-> Identity, textHidden |-> FALSE],
                                        scene, measure)
        IN  /\ other.canvasWidth = out.canvasWidth
            /\ other.canvasHeight = out.canvasHeight
            /\ other.placement = out.placement

\* exported from a view zoomed out below the label threshold (the clone
\* carries the hidden labels), the component away from the root; the view has
\* been panned
C13_Witness ==
    /\ exported
    /\ out.labelHidden
    /\ transform.x # 0 /\ transform.y # 0
    /\ out.placement[1][1] # out.placement[2][1]
    /\ out.placement[1][2] # out.placement[2][2]

\* C14: the labels of the live view are hidden exactly when the scale is
\* below 0.7, and an export shows the labels of every node whatever the scale
\* of the live view was.
C14_ExportShowsLabels ==
    /\ textHidden <=> transform.k < HideTextBelow
    /\ exported => ~out.labelHidden

\* C15: an export that failed (no group, no context, image not decoded)
\* triggered no download and its failure went to the caller.
C15_FailedExportReported ==
    \A i \in DOMAIN exports :
        exports[i].error # "none" =>
            /\ ~exports[i].downloaded
            /\ exports[i].rethrown

\* C16 as stated: a drag-start on an unpinned node pins it at the pointer,
\* and sets the alpha target to 0.3 and restarts the timer if and only if no
\* other gesture is active; a drag-move sets the pin to the pointer and leaves
\* the alpha target alone.
C16_PinnedAtPointer ==
    [][ /\ \A t \in Touches, n \in SimNodes, p \in Pointers :
              (pointerdown(t, n, p) /\ ~Pinned(n)) =>
                  /\ fx'[n] = p[1] /\ fy'[n] = p[2]
                  /\ IF ActiveCount = 0
                     THEN alphaTarget' = DragAlphaTarget /\ running'
                     ELSE alphaTarget' = alphaTarget /\ running' = running
        /\ \A t \in Touches, p \in Pointers :
              pointermove(t, p) =>
                  /\ fx'[gesture[t]] = p[1] /\ fy'[gesture[t]] = p[2]
                  /\ alphaTarget' = alphaTarget
      ]_vars

\* C16 amended: a drag-start on an unpinned node pins it where it is, the
\* offset between the node and the pointer being kept for the gesture, and
\* sets the alpha target to 0.3 and restarts the timer if and only if no other
\* gesture is active; a drag-move sets the pin to the pointer shifted by that
\* offset and leaves the alpha target alone.
C16_PinnedAtNodeThenPointerPlusOffset ==
    [][ /\ \A t \in Touches :
              (gesture[t] = NullRef /\ gesture'[t] # NullRef) =>
                  \A p \in Pointers :
                      LET n == gesture'[t]
                      IN  (~Pinned(n) /\ pointerdown(t, n, p)) =>
                              /\ fx'[n] = x[n] /\ fy'[n] = y[n]
                              /\ grab'[t] = <<x[n] - p[1], y[n] - p[2]>>
                              /\ IF ActiveCount = 0
                                 THEN alphaTarget' = DragAlphaTarget /\ running'
                                 ELSE alphaTarget' = alphaTarget /\ running' = running
        /\ \A t \in Touches :
              (gesture[t] # NullRef /\ gesture'[t] = gesture[t]) =>
                  \A p \in Pointers :
                      pointermove(t, p) =>
                          /\ fx'[gesture[t]] = p[1] + grab[t][1]
                          /\ fy'[gesture[t]] = p[2] + grab[t][2]
                          /\ alphaTarget' = alphaTarget
      ]_vars

\* a cooled-down simulation restarted by a drag that grabbed the node off its
\* centre and has moved it, a second gesture holding the other node
C16_Witness ==
    \E t, u \in Touches, n, m \in SimNodes :
        /\ gesture[t] = n /\ gesture[u] = m /\ n # m
        /\ grab[t] # NoGrab
        /\ fx[n] # x[n]
        /\ alpha = 0 /\ running
        /\ alphaTarget = DragAlphaTarget

Settled ==
    /\ ~running
    /\ BelowAlphaMin(alpha)
    /\ \A n \in SimNodes : ~Pinned(n)

\* C17: a drag-end clears the pin of the dragged node; whenever no gesture
\* is active the alpha target is 0 and no node is pinned; and if from some
\* moment on no gesture is active (no further drag events), the simulation
\* settles for good: alpha below the stop threshold, the timer stopped, no
\* node pinned.
C17_SettlesAfterLastDragEnd ==
    /\ [][ \A t \in Touches :
              dragended(t) => fx'[gesture[t]] = Unset /\ fy'[gesture[t]] = Unset ]_vars
    /\ [](ActiveCount = 0 => alphaTarget = 0 /\ \A n \in SimNodes : ~Pinned(n))
    /\ (<>[](ActiveCount = 0) => <>[]Settled)

\* the last gesture on a cooled-down simulation has just ended: the timer it
\* restarted is still running, the target is back at 0 and nothing is pinned
C17_Witness ==
    /\ ActiveCount = 0
    /\ running
    /\ BelowAlphaMin(alpha)
    /\ alphaTarget = 0
    /\ \A n \in SimNodes : ~Pinned(n)

Ticking == { i \in DOMAIN simulations : simulations[i].running }

\* C18: at every moment at most one simulation is ticking (a new tree stops
\* the simulation of the tree before it), and none is ticking while no tree
\* is displayed (clearing the view stops the simulation).
C18_NoSimulationWithoutTree ==
    /\ Cardinality(Ticking) <= 1
    /\ ~rendered => Ticking = {}

InFlight == { i \in DOMAIN requests : requests[i].state = "pending" }

\* C19: loading is true whenever a request is in flight, and once no
\* request is in flight after two or more of them, kanjiData and selectedNode
\* hold the data of the kanji requested last (when that request succeeded).
C19_LatestRequestWins ==
    /\ InFlight # {} => loading
    /\ (Len(requests) >= 2 /\ InFlight = {}) =>
          LET last == requests[Len(requests)]
          IN  last.state # "failed" =>
                  /\ kanjiData # <<>>
                  /\ kanjiData[1].character = last.kanji
                  /\ selectedNode = kanjiData

NoDuplicates(h) == \A i, j \in DOMAIN h : i # j => h[i] # h[j]

\* the step is a successful visualization of kanji: answered by the API or
\* from the cache
Visualized(kanji) ==
    \/ \E i \in DOMAIN requests :
          requests[i].kanji = kanji /\ \E accepted \in BOOLEAN : responded(i, accepted)
    \/ getFromCache(localStorage, kanji) # <<>> /\ startVisualization(kanji)

\* the entries of h other than kanji, in their order
Others(h, kanji) == SelectSeq(h, LAMBDA e : e # kanji)

Called(kanji) ==
    /\ Len(requests') = Len(requests) + 1
    /\ requests'[Len(requests')].kanji = kanji

\* the request the step adds
NewRequest == requests'[Len(requests')]

\* the step is the successful fetch of request i, or its failure
Fetched(i) == requests[i].state = "pending" /\ requests'[i].state = "fetched"
FetchFailed(i) == requests[i].state = "pending" /\ requests'[i].state = "failed"

\* there is an item under the cache key of kanji and JSON.parse accepts it
Parseable(store, kanji) ==
    store.cache[kanji] # <<>> /\ parses(store.cache[kanji][1])

\* there is an item under the cache key of kanji and JSON.parse throws on it
Unparseable(store, kanji) ==
    store.cache[kanji] # <<>> /\ ~parses(store.cache[kanji][1])

\* the item under the cache key of kanji is the JSON of a node
HoldsNode(store, kanji) ==
    store.cache[kanji] # <<>> /\ store.cache[kanji][1].kind = "object"

\* C21 as stated: a call for a kanji with a parseable cache entry sends no
\* API request and returns the entry; a successful fetch stores the
\* processed result under the key of its kanji, and every call for a kanji
\* fetched before is served from the cache; a call that finds an unparseable
\* entry removes it and goes to the API; a failed fetch stores nothing.
C21_CacheServesEveryParseableEntry ==
    [][ /\ \A kanji \in Kanji :
              Called(kanji) =>
                  /\ Parseable(localStorage, kanji) =>
                         /\ NewRequest.state = "cached"
                         /\ NewRequest.data = parse(localStorage.cache[kanji][1])
                  /\ (\E i \in DOMAIN requests :
                         requests[i].kanji = kanji /\ requests[i].state = "fetched")
                       => NewRequest.state = "cached"
                  /\ Unparseable(localStorage, kanji) =>
                         /\ NewRequest.state = "pending"
                         /\ localStorage'.cache[kanji] = <<>>
        /\ \A i \in DOMAIN requests :
              /\ Fetched(i) =>
                     /\ requests'[i].data[1].id = ""
                     /\ localStorage'.cache[requests[i].kanji]
                            = << stringify(requests'[i].data[1]) >>
              /\ FetchFailed(i) => localStorage'.cache = localStorage.cache
      ]_vars

\* C21 as the code has it: a call for a kanji whose cache entry is the JSON
\* of a node sends no API request, returns that node and leaves the storage
\* alone, and such an entry, once there, stays, so every later call for the
\* kanji is served from the cache; any other call goes to the API, removing
\* the entry when it is a non-empty text that does not parse and leaving the
\* storage alone otherwise (no entry, the empty string, the JSON of a falsy
\* value); a successful fetch returns the processed result and stores it
\* under the key of its kanji or, when the storage rejects the write,
\* leaves the cache as it was; a failed fetch leaves the cache as it was.
C21_CacheServesNodeEntries ==
    [][ /\ \A kanji \in Kanji :
              /\ Called(kanji) =>
                     IF HoldsNode(localStorage, kanji)
                     THEN /\ NewRequest.state = "cached"
                          /\ NewRequest.data = << localStorage.cache[kanji][1].value >>
                          /\ localStorage'.cache = localStorage.cache
                     ELSE /\ NewRequest.state = "pending"
                          /\ NewRequest.data = <<>>
                          /\ \A k \in Kanji \ {kanji} :
                                localStorage'.cache[k] = localStorage.cache[k]
                          /\ IF /\ Unparseable(localStorage, kanji)
                                /\ localStorage.cache[kanji][1].kind # "empty"
                             THEN localStorage'.cache[kanji] = <<>>
                             ELSE localStorage'.cache[kanji] = localStorage.cache[kanji]
              /\ HoldsNode(localStorage, kanji) => HoldsNode(localStorage', kanji)
        /\ \A i \in DOMAIN requests :
              /\ Fetched(i) =>
                     /\ requests'[i].data
                            = << recursivelyProcessComponents(parsedData(requests[i].kanji, i)) >>
                     /\ \/ localStorage'.cache
                               = [localStorage.cache EXCEPT ![requests[i].kanji]
                                     = << stringify(requests'[i].data[1]) >>]
                        \/ localStorage'.cache = localStorage.cache
              /\ FetchFailed(i) => localStorage'.cache = localStorage.cache
      ]_vars

\* a kanji fetched from the API and stored, a later call for it served from
\* the cache with the node the fetch returned, and another request failed
C21_Witness ==
    \E i, j, f \in DOMAIN requests :
        /\ i < j
        /\ requests[i].kanji = requests[j].kanji
        /\ requests[i].state = "fetched"
        /\ requests[j].state = "cached"
        /\ requests[j].data = requests[i].data
        /\ localStorage.cache[requests[i].kanji] = << stringify(requests[i].data[1]) >>
        /\ requests[f].state = "failed"

=============================================================================
